---- MODULE Spec2Model ----
(***************************************************************************)
(* Model of p3data.py: the record normalisation, prediction, fake-score    *)
(* and ranking pipeline run by main() over the spreadsheets of a folder.   *)
(*                                                                         *)
(* Representation.  A cell that pandas holds as NaN / NaT / NA / None is   *)
(* the empty tuple; a present value v is the one-element tuple <<v>>.      *)
(* Text that the code inspects character by character (the phone) is a     *)
(* tuple of one-character strings.  A date is its day number since         *)
(* 1970-01-01.  Child_Age_Months keeps one decimal, so it is held in       *)
(* tenths of a month (72.1 months is 721).  A data frame is a record       *)
(* [columns, rows]; every row is a function over the frame's columns.      *)
(***************************************************************************)
EXTENDS Integers, Sequences, FiniteSets, TLC

VARIABLES
    files,      \* main(): the input spreadsheets found by glob (lines 105-108)
    frames,     \* main(): the frames read so far (line 122)
    data,       \* main(): the merged data frame (line 130)
    today,      \* main(): the reference day of the run (line 145)
    score,      \* main(): the raw score series, before clipping (line 169)
    exported,   \* the table handed to to_excel (line 205)
    pc          \* the position of main()

vars == <<files, frames, data, today, score, exported, pc>>

(***************************** bounds ***************************************)
MaxFiles == 2       \* spreadsheets in the folder
MaxRows == 2        \* rows over all spreadsheets of an arbitrary input
MaxRunRows == 10    \* rows of a long two-run spreadsheet

(************************* program constants ********************************)
PREDICT_REMAINING_WEEKS == 20
DEFAULT_FAKE_THRESHOLD == 70

(************************* missing values ***********************************)
NaN == << >>
NaT == << >>
NA == << >>
None == << >>

isna(x) == x = << >>
notna(x) == x # << >>

(************************* normalize_phone **********************************)
Digits == {"0", "1", "2", "3", "4", "5", "6", "7", "8", "9"}
Whitespace == {" "}

RECURSIVE lstrip(_)
lstrip(s) ==
    IF s # << >> /\ Head(s) \in Whitespace THEN lstrip(Tail(s)) ELSE s

RECURSIVE rstrip(_)
rstrip(s) ==
    IF s # << >> /\ s[Len(s)] \in Whitespace
    THEN rstrip(SubSeq(s, 1, Len(s) - 1))
    ELSE s

strip(s) == rstrip(lstrip(s))

\* re.sub(r"\.0$", "", s)
sub_trailing_dot0(s) ==
    IF Len(s) >= 2 /\ s[Len(s) - 1] = "." /\ s[Len(s)] = "0"
    THEN SubSeq(s, 1, Len(s) - 2)
    ELSE s

IsDigit(c) == c \in Digits

\* re.sub(r"\D+", "", s)
sub_non_digits(s) == SelectSeq(s, IsDigit)

normalize_phone(x) ==
    IF isna(x) THEN << >> ELSE sub_non_digits(sub_trailing_dot0(strip(x[1])))


(************************* pd.to_datetime ***********************************)
IsLeap(y) == (y % 4 = 0 /\ y % 100 # 0) \/ y % 400 = 0

DaysInMonth(y, m) ==
    IF m = 2 THEN (IF IsLeap(y) THEN 29 ELSE 28)
    ELSE IF m \in {4, 6, 9, 11} THEN 30 ELSE 31

\* leap years in 1..y
LeapsUpTo(y) == (y \div 4) - (y \div 100) + (y \div 400)

RECURSIVE DaysBeforeMonth(_, _)
DaysBeforeMonth(y, m) ==
    IF m = 1 THEN 0 ELSE DaysBeforeMonth(y, m - 1) + DaysInMonth(y, m - 1)

\* day number of the civil date y-m-d, 1970-01-01 being day 0
DayNumber(y, m, d) ==
    365 * (y - 1970) + (LeapsUpTo(y - 1) - LeapsUpTo(1969))
        + DaysBeforeMonth(y, m) + (d - 1)

ValidDate(y, m, d) ==
    /\ y \in 1970..2200
    /\ m \in 1..12
    /\ d \in 1..DaysInMonth(y, m)

\* pd.to_datetime(df[["Year", "Month.1", "Day"]]..., errors="coerce"), one row
to_datetime_ymd(row) ==
    LET y == row["Year"]
        m == row["Month.1"]
        d == row["Day"]
    IN  IF notna(y) /\ notna(m) /\ notna(d) /\ ValidDate(y[1], m[1], d[1])
        THEN <<DayNumber(y[1], m[1], d[1])>>
        ELSE NaT

\* pd.to_datetime(df["Date"], errors="coerce", dayfirst=True), one cell; the
\* text a/b/c is held as <<a, b, c>>
to_datetime_dayfirst(x) ==
    IF notna(x) /\ Len(x[1]) = 3 /\ ValidDate(x[1][3], x[1][2], x[1][1])
    THEN <<DayNumber(x[1][3], x[1][2], x[1][1])>>
    ELSE NaT

(************************* build_register_date ******************************)
FragCols == {"Year", "Month.1", "Day"}

NRows(df) == Len(df.rows)

\* s.isna().mean() < 0.9, as the exact comparison 10 * failed < 9 * rows
mostly_parsed(s) ==
    10 * Cardinality({i \in DOMAIN s : isna(s[i])}) < 9 * Len(s)

\* a variant that falls back to the date text row by row
build_register_date_per_row(df) ==
    [i \in 1..NRows(df) |->
        IF FragCols \subseteq df.columns /\ notna(to_datetime_ymd(df.rows[i]))
        THEN to_datetime_ymd(df.rows[i])
        ELSE IF "Date" \in df.columns
        THEN to_datetime_dayfirst(df.rows[i]["Date"])
        ELSE NaT]

\* lines 63-80: one method for the whole frame
build_register_date(df) ==
    LET s == [i \in 1..NRows(df) |-> to_datetime_ymd(df.rows[i])]
    IN  IF FragCols \subseteq df.columns /\ mostly_parsed(s)
        THEN s
        ELSE IF "Date" \in df.columns
        THEN [i \in 1..NRows(df) |-> to_datetime_dayfirst(df.rows[i]["Date"])]
        ELSE [i \in 1..NRows(df) |-> NaT]

(************************* pregnancy_status *********************************)
\* row.get(col)
get(row, col) == IF col \in DOMAIN row THEN row[col] ELSE None

\* a variant that tests the markers' truth value in place of their presence
pregnancy_status_truthy(row) ==
    IF notna(get(row, "S1")) /\ get(row, "S1") # <<0>> THEN "Pregnant"
    ELSE IF notna(get(row, "S2")) /\ get(row, "S2") # <<0>> THEN "Has_Child"
    ELSE "Unknown"

\* lines 91-95
pregnancy_status(row) ==
    IF notna(get(row, "S1")) THEN "Pregnant"
    ELSE IF notna(get(row, "S2")) THEN "Has_Child"
    ELSE "Unknown"

(************************* data frames **************************************)
EmptyFrame == [columns |-> {}, rows |-> << >>]

\* df[name] = values
with_column(df, name, values) ==
    [columns |-> df.columns \cup {name},
     rows |-> [i \in 1..NRows(df) |->
                 [c \in df.columns \cup {name} |->
                     IF c = name THEN values[i] ELSE df.rows[i][c]]]]

\* df["Source_File"] = os.path.basename(f)
tagged(sheet, name) ==
    with_column(sheet, "Source_File", [i \in 1..NRows(sheet) |-> <<name>>])

RECURSIVE AllColumns(_)
AllColumns(fs) ==
    IF fs = << >> THEN {} ELSE Head(fs).columns \cup AllColumns(Tail(fs))

RECURSIVE AllRows(_)
AllRows(fs) ==
    IF fs = << >> THEN << >> ELSE Head(fs).rows \o AllRows(Tail(fs))

\* pd.concat(frames, ignore_index=True): the union of the columns, the rows
\* in order, a cell of a column its frame lacks being NaN
concat(fs) ==
    LET cols == AllColumns(fs)
        rows == AllRows(fs)
    IN  [columns |-> cols,
         rows |-> [i \in 1..Len(rows) |->
                     [c \in cols |->
                         IF c \in DOMAIN rows[i] THEN rows[i][c] ELSE NaN]]]

(************************* predictions **************************************)
\* a variant that adds the weeks as days
add_weeks_as_days(date, weeks) == IF isna(date) THEN NaT ELSE <<date[1] + weeks>>

\* Register_Date + pd.to_timedelta(PREDICT_REMAINING_WEEKS * 7, unit="D")
add_weeks(date, weeks) == IF isna(date) THEN NaT ELSE <<date[1] + 7 * weeks>>

\* a variant without the Pregnant mask
predicted_birth_everyone(row) ==
    add_weeks(row["Register_Date"], PREDICT_REMAINING_WEEKS)

\* lines 152-157, one row
predicted_birth(row) ==
    IF row["Pregnancy_Status"] = "Pregnant"
    THEN add_weeks(row["Register_Date"], PREDICT_REMAINING_WEEKS)
    ELSE NaT

\* a variant that reads a missing date as day 0
months_rounded_nat_as_epoch(t, date) ==
    IF isna(date) THEN <<(t + 1) \div 3>> ELSE <<((t - date[1]) + 1) \div 3>>

\* ((today - Register_Date) / timedelta(days=30)).round(1), in tenths of a
\* month: days/30 rounded to one decimal is days/3 rounded to an integer, and
\* days/3 is never half-way between two integers
months_rounded(t, date) ==
    IF isna(date) THEN NaN ELSE <<((t - date[1]) + 1) \div 3>>

\* lines 160-164, one row
child_age(row, t) ==
    IF row["Pregnancy_Status"] = "Has_Child"
    THEN months_rounded(t, row["Register_Date"])
    ELSE NA

(************************* fake score ***************************************)
\* a variant that marks the later members of a group only (keep="first")
duplicated_later_only(rows, col, i) ==
    \E j \in 1..(i - 1) : rows[j][col] = rows[i][col]

\* data.duplicated(col, keep=False), row i
duplicated(rows, col, i) ==
    \E j \in DOMAIN rows : j # i /\ rows[j][col] = rows[i][col]

\* .astype(int)
astype_int(b) == IF b THEN 1 ELSE 0

\* x.fillna(v)
fillna(x, v) == IF isna(x) THEN v ELSE x[1]

\* a variant that weighs the missing date 20
raw_score_no_date_weight_20(rows, i) ==
    0 + astype_int(isna(rows[i]["FirstName"])) * 20
      + astype_int(Len(rows[i]["Mobile_norm"]) < 9) * 25
      + astype_int(duplicated(rows, "Mobile_norm", i)) * 20
      + astype_int(isna(rows[i]["Register_Date"])) * 20
      + astype_int(fillna(rows[i]["Child_Age_Months"], 0) > 72 * 10) * 20

\* the sum built by lines 169-184 for row i; child ages are in tenths
raw_score(rows, i) ==
    0 + astype_int(isna(rows[i]["FirstName"])) * 20
      + astype_int(Len(rows[i]["Mobile_norm"]) < 9) * 25
      + astype_int(duplicated(rows, "Mobile_norm", i)) * 20
      + astype_int(isna(rows[i]["Register_Date"])) * 15
      + astype_int(fillna(rows[i]["Child_Age_Months"], 0) > 72 * 10) * 20

\* score.clip(lo, hi)
clip(x, lo, hi) == IF x < lo THEN lo ELSE IF x > hi THEN hi ELSE x

\* a variant with intervals closed on the left (right=False)
cut_left_closed(x, bins, labels) ==
    LET hit == {k \in 1..Len(labels) : bins[k] <= x /\ x < bins[k + 1]}
    IN  IF hit = {} THEN NaN ELSE <<labels[CHOOSE k \in hit : TRUE]>>

\* pd.cut(x, bins, labels): the label of the interval (bins[k], bins[k+1]]
\* that holds x, NaN when none does
cut(x, bins, labels) ==
    LET hit == {k \in 1..Len(labels) : bins[k] < x /\ x <= bins[k + 1]}
    IN  IF hit = {} THEN NaN ELSE <<labels[CHOOSE k \in hit : TRUE]>>

LabelBins == <<-1, 30, 70, 100>>
LabelNames == <<"High", "Medium", "Low">>

confidence_label(x) == cut(x, LabelBins, LabelNames)

(************************* sort_values ***************************************)
\* a variant that puts the missing dates first (na_position="first")
date_before_nat_first(x, y) == notna(y) /\ (isna(x) \/ x[1] < y[1])

\* the order of sort_values(["Fake_Score", "Register_Date"]): ascending, a
\* missing date after every date (na_position="last")
date_before(x, y) == notna(x) /\ (isna(y) \/ x[1] < y[1])

sorts_before(a, b) ==
    \/ a["Fake_Score"] < b["Fake_Score"]
    \/ /\ a["Fake_Score"] = b["Fake_Score"]
       /\ date_before(a["Register_Date"], b["Register_Date"])

\* r placed after every row of the sorted sequence that does not sort after it
RECURSIVE insert_sorted(_, _)
insert_sorted(sorted, r) ==
    IF sorted = << >> THEN <<r>>
    ELSE IF sorts_before(r, Head(sorted)) THEN <<r>> \o sorted
    ELSE <<Head(sorted)>> \o insert_sorted(Tail(sorted), r)

RECURSIVE sort_rows(_)
sort_rows(rows) ==
    IF rows = << >> THEN << >>
    ELSE insert_sorted(sort_rows(SubSeq(rows, 1, Len(rows) - 1)), rows[Len(rows)])

\* a variant that keeps the sales-ready records only
sort_values_dropping_low(df) ==
    [columns |-> df.columns,
     rows |-> sort_rows(SelectSeq(df.rows, LAMBDA r : r["Sales_Ready"]))]

\* data.sort_values(["Fake_Score", "Register_Date"]), a stable sort
sort_values(df) == [columns |-> df.columns, rows |-> sort_rows(df.rows)]

(************************* inputs *******************************************)
\* the days the run may take place on: 2025-12-01 and 2025-12-02
Todays == {20423, 20424}

Phone10 == <<"0", "9", "0", "1", "2", "3", "4", "5", "6", "7">>

\* the cells a spreadsheet may hold in each column
CellsOf(c) ==
    CASE c = "FirstName" -> {NaN, <<"An">>}
      [] c = "Mobile" -> {NaN, <<Phone10>>, <<<<" ">> \o Phone10 \o <<".", "0">>>>}
      [] c = "S1" -> {NaN, <<0>>, <<1>>}
      [] c = "S2" -> {NaN, <<0>>}
      [] c = "Date" -> {NaN, <<<<1, 2, 2020>>>>}

\* the fragment cells of a row: none, 2020-01-01, 2020-02-01
FragCells ==
    {[c \in FragCols |-> NaN],
     [c \in FragCols |-> IF c = "Year" THEN <<2020>> ELSE <<1>>],
     [c \in FragCols |-> IF c = "Year" THEN <<2020>>
                         ELSE IF c = "Month.1" THEN <<2>> ELSE <<1>>]}

RECURSIVE RowsOver(_)
RowsOver(cols) ==
    IF cols = {} THEN {<< >>}
    ELSE LET c == CHOOSE x \in cols : TRUE
         IN  {(c :> v) @@ r : v \in CellsOf(c), r \in RowsOver(cols \ {c})}

\* the rows a spreadsheet with these columns may hold
RowsWith(cols) ==
    {[c \in cols |-> IF c \in FragCols THEN f[c] ELSE r[c]] :
        r \in RowsOver(cols \ FragCols), f \in FragCells}

ColumnSets ==
    {{"FirstName", "Mobile", "S1", "S2", "Year", "Month.1", "Day"},
     {"FirstName", "Mobile", "S2", "Date"},
     {"FirstName", "Mobile"},
     {"FirstName", "S1"},
     {"Mobile", "S2"}}

FileNames == <<"a.xlsx", "b.xlsx", "c.xlsx", "d.xlsx">>

\* the rows of each kind of spreadsheet
SheetRows == [cols \in ColumnSets |-> RowsWith(cols)]

\* a longer spreadsheet is made of two runs of equal rows, k of a then the
\* rest of b, that differ in their date cells only
RunColumnSets ==
    {{"FirstName", "Mobile", "S2", "Year", "Month.1", "Day", "Date"},
     {"FirstName", "Mobile", "S2", "Year", "Day", "Date"},
     {"FirstName", "Mobile", "S2", "Year", "Month.1", "Day"}}

RunRows(cols) ==
    {[c \in cols |->
        IF c \in FragCols THEN f[c]
        ELSE IF c = "Date" THEN d
        ELSE IF c = "FirstName" THEN <<"An">>
        ELSE IF c = "Mobile" THEN <<Phone10>>
        ELSE <<0>>] :
     f \in {x \in FragCells : x["Month.1"] # <<2>>}, d \in CellsOf("Date")}

RECURSIVE TotalRows(_)
TotalRows(fs) ==
    IF fs = << >> THEN 0 ELSE Len(Head(fs).rows) + TotalRows(Tail(fs))

\* the row counts the next spreadsheet may have: one that leaves a row for
\* each spreadsheet still unread, MaxRows rows in all; a lone spreadsheet of
\* two runs has up to MaxRunRows rows
SheetLengths(cols) ==
    IF cols \in ColumnSets
    THEN 1..(MaxRows - TotalRows(frames) - (Len(files) - Len(frames) - 1))
    ELSE IF Len(files) = 1 THEN (MaxRows + 1)..MaxRunRows ELSE {}

\* the row sequences of n rows a spreadsheet with these columns may hold
SheetContents(cols, n) ==
    IF cols \in ColumnSets
    THEN [1..n -> SheetRows[cols]]
    ELSE {[i \in 1..n |-> IF i <= k THEN a ELSE b] :
            a \in RunRows(cols), b \in RunRows(cols), k \in 1..n}

(************************* the pipeline *************************************)
\* lines 115-117: no spreadsheet, main() returns
NoFiles ==
    /\ pc = "read"
    /\ files = << >>
    /\ pc' = "stopped"
    /\ UNCHANGED <<files, frames, data, today, score, exported>>

\* lines 123-127: one turn of the reading loop; read_excel returns what the
\* spreadsheet holds
ReadFile ==
    /\ pc = "read"
    /\ Len(frames) < Len(files)
    /\ \E cols \in ColumnSets \cup RunColumnSets :
          \E n \in SheetLengths(cols) :
             \E rows \in SheetContents(cols, n) :
                frames' = Append(frames,
                                 tagged([columns |-> cols, rows |-> rows],
                                        files[Len(frames) + 1]))
    /\ UNCHANGED <<files, data, today, score, exported, pc>>

\* line 130
Concat ==
    /\ pc = "read"
    /\ files # << >>
    /\ Len(frames) = Len(files)
    /\ data' = concat(frames)
    /\ pc' = "normalize"
    /\ UNCHANGED <<files, frames, today, score, exported>>

\* lines 137-143; data["Mobile"] raises KeyError when no file has the column
Normalize ==
    /\ pc = "normalize"
    /\ IF "Mobile" \notin data.columns
       THEN /\ pc' = "failed"
            /\ data' = data
       ELSE LET d1 == with_column(data, "Mobile_norm",
                        [i \in 1..NRows(data) |->
                            normalize_phone(data.rows[i]["Mobile"])])
                d2 == with_column(d1, "Register_Date", build_register_date(d1))
                d3 == with_column(d2, "Pregnancy_Status",
                        [i \in 1..NRows(d2) |-> pregnancy_status(d2.rows[i])])
            IN  /\ data' = d3
                /\ pc' = "predict"
    /\ UNCHANGED <<files, frames, today, score, exported>>

\* lines 145-164; the day of the run is the clock's
Predict(t) ==
    /\ pc = "predict"
    /\ today' = <<t>>
    /\ LET d1 == with_column(data, "Predicted_Giving_Birth_Date",
                    [i \in 1..NRows(data) |-> predicted_birth(data.rows[i])])
           d2 == with_column(d1, "Child_Age_Months",
                    [i \in 1..NRows(d1) |-> child_age(d1.rows[i], t)])
       IN  data' = d2
    /\ pc' = "score"
    /\ UNCHANGED <<files, frames, score, exported>>

\* lines 169-197; data["FirstName"] raises KeyError when no file has the column
FakeScore ==
    /\ pc = "score"
    /\ IF "FirstName" \notin data.columns
       THEN /\ pc' = "failed"
            /\ UNCHANGED <<data, score>>
       ELSE LET raw == [i \in 1..NRows(data) |-> raw_score(data.rows, i)]
                d1 == with_column(data, "Fake_Score",
                        [i \in 1..NRows(data) |-> clip(raw[i], 0, 100)])
                d2 == with_column(d1, "Confidence_Label",
                        [i \in 1..NRows(d1) |->
                            confidence_label(d1.rows[i]["Fake_Score"])])
                d3 == with_column(d2, "Sales_Ready",
                        [i \in 1..NRows(d2) |->
                            d2.rows[i]["Fake_Score"] <= DEFAULT_FAKE_THRESHOLD])
            IN  /\ score' = raw
                /\ data' = d3
                /\ pc' = "sort"
    /\ UNCHANGED <<files, frames, today, exported>>

\* line 200
SortValues ==
    /\ pc = "sort"
    /\ data' = sort_values(data)
    /\ pc' = "export"
    /\ UNCHANGED <<files, frames, today, score, exported>>

\* line 205
Export ==
    /\ pc = "export"
    /\ exported' = data.rows
    /\ pc' = "done"
    /\ UNCHANGED <<files, frames, data, today, score>>

(************************* specification ************************************)
Init ==
    /\ files \in {SubSeq(FileNames, 1, n) : n \in 0..MaxFiles}
    /\ frames = << >>
    /\ data = EmptyFrame
    /\ today = NaT
    /\ score = << >>
    /\ exported = << >>
    /\ pc = "read"

Next ==
    \/ NoFiles
    \/ ReadFile
    \/ Concat
    \/ Normalize
    \/ \E t \in Todays : Predict(t)
    \/ FakeScore
    \/ SortValues
    \/ Export

Spec == Init /\ [][Next]_vars

(************************* the label function alone *************************)
\* pd.cut applied to one score of the range the clip leaves (lines 187-194)
InitCut ==
    /\ files = << >>
    /\ frames = << >>
    /\ data = EmptyFrame
    /\ today = NaT
    /\ score \in {<<x>> : x \in 0..100}
    /\ exported = << >>
    /\ pc = "cut"

CutScore ==
    /\ pc = "cut"
    /\ data' = with_column(
                 [columns |-> {"Fake_Score"},
                  rows |-> [i \in 1..1 |-> [c \in {"Fake_Score"} |-> score[i]]]],
                 "Confidence_Label", [i \in 1..1 |-> confidence_label(score[i])])
    /\ pc' = "cut_done"
    /\ UNCHANGED <<files, frames, today, score, exported>>

NextCut == CutScore

SpecCut == InitCut /\ [][NextCut]_vars

(************************* properties ***************************************)
Normalized == pc \in {"predict", "score", "sort", "export", "done"}
Predicted == pc \in {"score", "sort", "export", "done"}
Scored == pc \in {"sort", "export", "done"}

Rows == data.rows

\* the five signals of the fake score, read off a finished record
SignalNames == {"missing_name", "short_phone", "shared_phone", "no_date", "old_child"}

Weight(sig) ==
    CASE sig = "missing_name" -> 20
      [] sig = "short_phone" -> 25
      [] sig = "shared_phone" -> 20
      [] sig = "no_date" -> 15
      [] sig = "old_child" -> 20

Holds(sig, rows, i) ==
    CASE sig = "missing_name" -> rows[i]["FirstName"] = NaN
      [] sig = "short_phone" -> Len(rows[i]["Mobile_norm"]) < 9
      [] sig = "shared_phone" ->
            Cardinality({j \in DOMAIN rows :
                            rows[j]["Mobile_norm"] = rows[i]["Mobile_norm"]}) >= 2
      [] sig = "no_date" -> rows[i]["Register_Date"] = NaT
      [] sig = "old_child" ->
            /\ rows[i]["Child_Age_Months"] # NA
            /\ rows[i]["Child_Age_Months"][1] > 720

Signals(rows, i) == {sig \in SignalNames : Holds(sig, rows, i)}

RECURSIVE WeightSum(_)
WeightSum(sigs) ==
    IF sigs = {} THEN 0
    ELSE LET sig == CHOOSE x \in sigs : TRUE
         IN  Weight(sig) + WeightSum(sigs \ {sig})

Clamped(x) == IF x < 0 THEN 0 ELSE IF x > 100 THEN 100 ELSE x

\* C1: every record's Fake_Score is the sum of the weights of the signals
\* that hold for it (missing name 20, short phone 25, shared phone 20, no
\* date 15, child older than 72 months 20) clamped to [0,100]; it lies in
\* 0..100, and a record whose only signals are missing name and short phone
\* scores 45.
C1_FakeScoreIsClampedSignalSum ==
    Scored =>
        \A i \in DOMAIN Rows :
            /\ Rows[i]["Fake_Score"] = Clamped(WeightSum(Signals(Rows, i)))
            /\ Rows[i]["Fake_Score"] \in 0..100
            /\ Signals(Rows, i) = {"missing_name", "short_phone"}
                    => Rows[i]["Fake_Score"] = 45

C1_Witness ==
    /\ pc = "done"
    /\ \E i \in DOMAIN exported :
            /\ Signals(exported, i) = {"missing_name", "short_phone"}
            /\ exported[i]["Fake_Score"] = 45
    /\ \E i \in DOMAIN exported :
            /\ Signals(exported, i) = {"no_date"}
            /\ exported[i]["Fake_Score"] = 15

\* the rows whose date fragments do not make a date
FragmentFailures == {i \in DOMAIN Rows : to_datetime_ymd(Rows[i]) = NaT}

BirthSet(r) == r["Predicted_Giving_Birth_Date"] # NaT
AgeSet(r) == r["Child_Age_Months"] # NA

\* C3 as stated: in every output record exactly one of predicted birth date
\* and child age is populated, the one that matches the status.
C3_ExactlyOnePrediction ==
    pc = "done" =>
        \A i \in DOMAIN exported :
            /\ BirthSet(exported[i]) # AgeSet(exported[i])
            /\ BirthSet(exported[i]) => exported[i]["Pregnancy_Status"] = "Pregnant"
            /\ AgeSet(exported[i]) => exported[i]["Pregnancy_Status"] = "Has_Child"

\* C3 amended: in every output record at most one of predicted birth date and
\* child age is populated: the birth date exactly when the status is Pregnant
\* and the registration date is present, the child age exactly when the
\* status is Has_Child and the registration date is present.
C3_AtMostOnePrediction ==
    pc = "done" =>
        \A i \in DOMAIN exported :
            LET r == exported[i]
            IN  /\ ~(BirthSet(r) /\ AgeSet(r))
                /\ BirthSet(r) <=> (r["Pregnancy_Status"] = "Pregnant"
                                        /\ r["Register_Date"] # NaT)
                /\ AgeSet(r) <=> (r["Pregnancy_Status"] = "Has_Child"
                                        /\ r["Register_Date"] # NaT)

C3_Witness ==
    /\ pc = "done"
    /\ \E i, j \in DOMAIN exported :
            /\ BirthSet(exported[i]) /\ ~AgeSet(exported[i])
            /\ AgeSet(exported[j]) /\ ~BirthSet(exported[j])

\* the score of a record without the shared-phone signal
OtherSignalsSum(rows, i) == WeightSum(Signals(rows, i) \ {"shared_phone"})

SharesPhone(rows, i) ==
    \E j \in DOMAIN rows : j # i /\ rows[j]["Mobile_norm"] = rows[i]["Mobile_norm"]

\* C4: the shared-phone penalty of 20 is in a record's score if and only if
\* another record of the merged batch, of any source file, has the same
\* normalized phone; every member of such a group carries it, and records
\* with an empty normalized phone share it with each other.
C4_SharedPhonePenalty ==
    Scored =>
        \A i \in DOMAIN Rows :
            /\ Rows[i]["Fake_Score"] - OtherSignalsSum(Rows, i)
                    = (IF SharesPhone(Rows, i) THEN 20 ELSE 0)
            /\ \A j \in DOMAIN Rows :
                    (j # i /\ Rows[i]["Mobile_norm"] = << >> /\ Rows[j]["Mobile_norm"] = << >>)
                        => /\ Rows[i]["Fake_Score"] - OtherSignalsSum(Rows, i) = 20
                           /\ Rows[j]["Fake_Score"] - OtherSignalsSum(Rows, j) = 20

\* two records of different files whose phones are written differently and
\* normalize to the same ten digits, both penalized
C4_Witness ==
    /\ pc = "done"
    /\ \E i, j \in DOMAIN exported :
            /\ i < j
            /\ exported[i]["Source_File"] # exported[j]["Source_File"]
            /\ exported[i]["Mobile"] # exported[j]["Mobile"]
            /\ exported[i]["Mobile_norm"] = Phone10
            /\ exported[j]["Mobile_norm"] = Phone10
            /\ exported[i]["Fake_Score"] - OtherSignalsSum(exported, i) = 20
            /\ exported[j]["Fake_Score"] - OtherSignalsSum(exported, j) = 20

LabelOf(x) ==
    IF x <= 30 THEN <<"High">> ELSE IF x <= 70 THEN <<"Medium">> ELSE <<"Low">>

\* C5: a score gets exactly one confidence label, High when it is at most 30,
\* Medium when above 30 and at most 70, Low when above 70 and at most 100; so
\* 0 and 30 are High, 31 and 70 Medium, 71 and 100 Low, and no score of
\* 0..100 is without a label.
C5_LabelPartition ==
    pc = "cut_done" =>
        \A i \in DOMAIN Rows :
            /\ Rows[i]["Confidence_Label"] = LabelOf(Rows[i]["Fake_Score"])
            /\ Rows[i]["Confidence_Label"] \in {<<"High">>, <<"Medium">>, <<"Low">>}

C5_Witness ==
    /\ pc = "cut_done"
    /\ Rows[1]["Fake_Score"] = 70
    /\ Rows[1]["Confidence_Label"] = <<"Medium">>

Count(seq, x) == Cardinality({j \in DOMAIN seq : seq[j] = x})

IsPermutation(a, b) ==
    /\ Len(a) = Len(b)
    /\ \A i \in DOMAIN a : Count(a, a[i]) = Count(b, a[i])

\* C6: the table handed to the sink is a permutation of the scored records:
\* the ranking step reorders them without changing a field or dropping a
\* record whatever its score, and the exported row count is the sum of the
\* row counts of the batches read.
C6_ExportIsPermutation ==
    [][/\ pc = "sort" => IsPermutation(data.rows, data'.rows)
       /\ pc = "export" => /\ exported' = data.rows
                           /\ Len(exported') = TotalRows(frames)]_vars

\* two batches, the ranking moved a record, one record scores above 70
C6_Witness ==
    /\ pc = "done"
    /\ Len(frames) = 2
    /\ Len(exported) = 2
    /\ exported[1]["Source_File"] = <<"b.xlsx">>
    /\ exported[2]["Source_File"] = <<"a.xlsx">>
    /\ exported[2]["Fake_Score"] > 70

\* C7: the exported table is in non-decreasing Fake_Score order, and among
\* records of equal score in non-decreasing registration date order, the
\* records without a date after the dated ones.
C7_ExportIsRanked ==
    pc = "done" =>
        \A i, j \in DOMAIN exported :
            i < j =>
                /\ exported[i]["Fake_Score"] <= exported[j]["Fake_Score"]
                /\ exported[i]["Fake_Score"] = exported[j]["Fake_Score"] =>
                    /\ exported[i]["Register_Date"] = NaT
                            => exported[j]["Register_Date"] = NaT
                    /\ (exported[i]["Register_Date"] # NaT
                            /\ exported[j]["Register_Date"] # NaT)
                        => exported[i]["Register_Date"][1]
                                <= exported[j]["Register_Date"][1]

\* two records of score 40; the ranking moved the dated one ahead of the
\* undated one
C7_Witness ==
    /\ pc = "done"
    /\ Len(exported) = 2
    /\ exported[1]["Fake_Score"] = 40
    /\ exported[2]["Fake_Score"] = 40
    /\ exported[1]["Register_Date"] # NaT
    /\ exported[2]["Register_Date"] = NaT
    /\ exported[1]["Source_File"] = <<"b.xlsx">>
    /\ exported[2]["Source_File"] = <<"a.xlsx">>

\* C8: a Pregnant record registered on day D has the predicted birth date
\* D + 7 * remaining weeks, D + 140 with the 20 weeks configured; without a
\* registration date it has no prediction, and a record that is not Pregnant
\* has none.
C8_PredictedBirthDate ==
    Predicted =>
        \A i \in DOMAIN Rows :
            LET r == Rows[i]
            IN  IF r["Pregnancy_Status"] = "Pregnant" /\ r["Register_Date"] # NaT
                THEN r["Predicted_Giving_Birth_Date"] = <<r["Register_Date"][1] + 140>>
                ELSE r["Predicted_Giving_Birth_Date"] = NaT

\* a Pregnant record registered 2020-01-01 is predicted for 2020-05-20
C8_Witness ==
    /\ Predicted
    /\ \E i \in DOMAIN Rows :
            /\ Rows[i]["Pregnancy_Status"] = "Pregnant"
            /\ Rows[i]["Register_Date"] = <<DayNumber(2020, 1, 1)>>
            /\ Rows[i]["Predicted_Giving_Birth_Date"] = <<DayNumber(2020, 5, 20)>>

\* whether a record has the marker: its column exists and its cell is not null
Present(r, col) == col \in DOMAIN r /\ r[col] # NaN

\* C9: a record's status is Pregnant whenever S1 is non-null, Has_Child when
\* S1 is null and S2 non-null, Unknown when both are null or missing; two
\* records that agree on which markers are present have the same status.
C9_StatusByPresence ==
    Normalized =>
        \A i \in DOMAIN Rows :
            /\ Rows[i]["Pregnancy_Status"] =
                    (IF Present(Rows[i], "S1") THEN "Pregnant"
                     ELSE IF Present(Rows[i], "S2") THEN "Has_Child"
                     ELSE "Unknown")
            /\ \A j \in DOMAIN Rows :
                    (/\ Present(Rows[i], "S1") = Present(Rows[j], "S1")
                     /\ Present(Rows[i], "S2") = Present(Rows[j], "S2"))
                        => Rows[i]["Pregnancy_Status"] = Rows[j]["Pregnancy_Status"]

\* S1 present with different values in two records, S2 present in one: both
\* Pregnant
C9_Witness ==
    /\ Normalized
    /\ {"S1", "S2"} \subseteq data.columns
    /\ \E i, j \in DOMAIN Rows :
            /\ Rows[i]["S1"] = <<0>> /\ Rows[i]["S2"] = <<0>>
            /\ Rows[j]["S1"] = <<1>> /\ Rows[j]["S2"] = NaN
            /\ Rows[i]["Pregnancy_Status"] = "Pregnant"
            /\ Rows[j]["Pregnancy_Status"] = "Pregnant"

\* C10: no record has both the missing-date and the old-child signal, no raw
\* score exceeds 85, and the clamp leaves every raw score as it is.
C10_DateAndChildAgeExclusive ==
    /\ Scored =>
        \A i \in DOMAIN Rows :
            /\ ~(Holds("no_date", Rows, i) /\ Holds("old_child", Rows, i))
            /\ Rows[i]["Fake_Score"] <= 85
    /\ pc = "sort" =>
        \A i \in DOMAIN Rows :
            /\ score[i] <= 85
            /\ Rows[i]["Fake_Score"] = score[i]

\* a record with the four other signals scores 85, another has a child and
\* no date
C10_Witness ==
    /\ pc = "sort"
    /\ \E i \in DOMAIN Rows : score[i] = 85 /\ Holds("old_child", Rows, i)
    /\ \E i \in DOMAIN Rows :
            /\ Rows[i]["Pregnancy_Status"] = "Has_Child"
            /\ Holds("no_date", Rows, i)

====
